---- MODULE Spec2Model ----
(***************************************************************************)
(* Model of sistema_gestion_contactos.py: the Contacto record and its line *)
(* codec (to_line / from_line) and the GestionContactos repository with    *)
(* its text-file persistence.  Strings are sequences of one-character      *)
(* strings so that strip, lower, split and the e-mail pattern are computed *)
(* as Python computes them.                                                *)
(***************************************************************************)
EXTENDS Integers, Sequences, FiniteSets, TLC

VARIABLES contactos, disco, ultimo, previo, discoPrevio, escritura, fallos,
          avisos, pc, craw, linea, decod

vars == <<contactos, disco, ultimo, previo, discoPrevio, escritura, fallos,
          avisos, pc, craw, linea, decod>>

repoVars == <<contactos, disco, ultimo, previo, discoPrevio, escritura, fallos,
              avisos>>
codecVars == <<pc, craw, linea, decod>>

(* ----------------------------- bounds --------------------------------- *)

\* largest number of contacts the in-memory list is allowed to grow to
MaxContactos == 2

\* largest number of writes of the file that fail with IOError in one run
MaxFallos == 1

\* largest number of lines of the file a repository is constructed on
MaxLineas == 2

\* largest length of a raw field handed to the Contacto constructor in the
\* codec specification
MaxCampo == 2

(* ------------------------- characters, strings ------------------------ *)

NL == "\n"

\* characters str.strip() removes
Espacios == {" ", NL}

Min(S) == CHOOSE x \in S : \A y \in S : x <= y
Max(S) == CHOOSE x \in S : \A y \in S : x >= y

\* str.strip(): drop whitespace at both ends
strip(s) ==
  LET idx == {i \in 1..Len(s) : s[i] \notin Espacios}
  IN  IF idx = {} THEN <<>> ELSE SubSeq(s, Min(idx), Max(idx))

lowerChar(ch) ==
  CASE ch = "A" -> "a"
    [] ch = "B" -> "b"
    [] ch = "C" -> "c"
    [] OTHER -> ch

\* str.lower()
lower(s) == [i \in 1..Len(s) |-> lowerChar(s[i])]

\* str.split(';'): always at least one part
RECURSIVE split(_)
split(s) ==
  LET pos == {i \in 1..Len(s) : s[i] = ";"}
  IN  IF pos = {} THEN <<s>>
      ELSE <<SubSeq(s, 1, Min(pos) - 1)>> \o split(SubSeq(s, Min(pos) + 1, Len(s)))

\* iteration over a text file: each line keeps its terminating newline, a
\* last line without newline is yielded as it is
RECURSIVE lineas(_)
lineas(texto) ==
  LET pos == {i \in 1..Len(texto) : texto[i] = NL}
  IN  IF texto = <<>> THEN <<>>
      ELSE IF pos = {} THEN <<texto>>
      ELSE <<SubSeq(texto, 1, Min(pos))>> \o lineas(SubSeq(texto, Min(pos) + 1, Len(texto)))

(* ------------------------------ Contacto ------------------------------ *)

\* Contacto.__init__: the three attributes, stripped
Contacto(nombre, telefono, email) ==
  [nombre |-> strip(nombre), telefono |-> strip(telefono), email |-> strip(email)]

\* a variant that writes the phone before the name
to_line_telefono_primero(c) ==
  c.telefono \o <<";">> \o c.nombre \o <<";">> \o c.email \o <<NL>>

\* Contacto.to_line: nombre;telefono;email\n
to_line(c) == c.nombre \o <<";">> \o c.telefono \o <<";">> \o c.email \o <<NL>>

\* a variant that also refuses a line whose third part is no address
from_line_valida(line) ==
  LET partes == split(strip(line))
      arroba == \E i \in 1..Len(partes[3]) : partes[3][i] = "@"
  IN  IF Len(partes) # 3 THEN <<>>
      ELSE IF ~arroba THEN <<>>
      ELSE <<Contacto(partes[1], partes[2], partes[3])>>

\* Contacto.from_line: a one-element sequence holding the contact, or the
\* empty sequence when ValueError is raised
from_line(line) ==
  LET partes == split(strip(line))
  IN  IF Len(partes) # 3 THEN <<>>
      ELSE <<Contacto(partes[1], partes[2], partes[3])>>

(* -------------------------- GestionContactos -------------------------- *)

\* the backing file: absent, or present with a text
Ausente == [existe |-> FALSE, texto |-> <<>>]

\* a variant that stops reading at the first line it cannot decode
RECURSIVE cargar_lineas_detiene(_)
cargar_lineas_detiene(ls) ==
  IF ls = <<>> THEN [contactos |-> <<>>, avisos |-> <<>>]
  ELSE LET c == from_line(Head(ls))
       IN  IF c = <<>>
           THEN [contactos |-> <<>>, avisos |-> <<strip(Head(ls))>>]
           ELSE [contactos |-> c \o cargar_lineas_detiene(Tail(ls)).contactos,
                 avisos |-> cargar_lineas_detiene(Tail(ls)).avisos]

\* _cargar_contactos on a freshly constructed repository (contactos = [])
RECURSIVE cargar_lineas(_)
cargar_lineas(ls) ==
  IF ls = <<>> THEN [contactos |-> <<>>, avisos |-> <<>>]
  ELSE LET r == cargar_lineas(Tail(ls))
           c == from_line(Head(ls))
       IN  IF c = <<>>
           THEN [contactos |-> r.contactos, avisos |-> <<strip(Head(ls))>> \o r.avisos]
           ELSE [contactos |-> c \o r.contactos, avisos |-> r.avisos]

cargar_contactos(d) ==
  IF ~d.existe THEN [contactos |-> <<>>, avisos |-> <<>>]
  ELSE cargar_lineas(lineas(d.texto))

\* the text _guardar_contactos writes for the first k contacts
RECURSIVE texto_de(_, _)
texto_de(cs, k) ==
  IF k = 0 THEN <<>> ELSE texto_de(cs, k - 1) \o to_line(cs[k])

\* outcomes of one run of _guardar_contactos on a list of n contacts:
\* -1 open() raises IOError, k < n an IOError after k records, n success
Escrituras(cs) == -1 .. Len(cs)

\* the outcomes still allowed once f writes have failed
EscriturasPosibles(cs, f) == IF f < MaxFallos THEN Escrituras(cs) ELSE {Len(cs)}

\* a variant that opens the file in append mode
guardar_contactos_anexa(cs, d, w) ==
  IF w = -1 THEN d
  ELSE [existe |-> TRUE, texto |-> d.texto \o texto_de(cs, w)]

\* a variant that opens the file for update and writes over it without
\* truncating
guardar_contactos_sin_truncar(cs, d, w) ==
  IF w = -1 THEN d
  ELSE [existe |-> TRUE,
        texto |-> texto_de(cs, w)
                  \o SubSeq(d.texto, Len(texto_de(cs, w)) + 1, Len(d.texto))]

\* _guardar_contactos: open(..., 'w') truncates, then one write per contact
guardar_contactos(cs, d, w) ==
  IF w = -1 THEN d
  ELSE [existe |-> TRUE, texto |-> texto_de(cs, w)]

EsPalabra(ch) == ch \in {"a", "A", "b", "B", "c", "C", "1", "2", "_"}
EsLocal(ch) == EsPalabra(ch) \/ ch \in {".", "-"}

\* _validar_email: re.match(r'^[\w\.-]+@[\w\.-]+\.\w{2,}$', email); '$'
\* also matches just before a newline that ends the string
validar_email(email) ==
  \E fin \in {Len(email)} \cup
             {n \in {Len(email) - 1} : n >= 0 /\ email[n + 1] = NL} :
    \E i \in 1..fin, j \in 1..fin :
      /\ 1 < i /\ i + 1 < j /\ j + 2 <= fin
      /\ email[i] = "@" /\ email[j] = "."
      /\ \A k \in 1..(i - 1) : EsLocal(email[k])
      /\ \A k \in (i + 1)..(j - 1) : EsLocal(email[k])
      /\ \A k \in (j + 1)..fin : EsPalabra(email[k])

ErrObligatorios == "ValueError: Todos los campos son obligatorios"
ErrEmail == "ValueError: Formato de correo electronico invalido"
ErrDuplicado == "ValueError: El contacto ya existe"
ErrNoEncontrado == "LookupError: Contacto no encontrado"
SinError == "ok"

\* a variant that inserts the new contact at the head of the list
agregar_contacto_al_frente(cs, nombre, telefono, email) ==
  IF nombre = <<>> \/ telefono = <<>> \/ email = <<>>
    THEN [err |-> ErrObligatorios, contactos |-> cs, guarda |-> FALSE]
  ELSE IF ~validar_email(email)
    THEN [err |-> ErrEmail, contactos |-> cs, guarda |-> FALSE]
  ELSE IF \E i \in 1..Len(cs) : lower(cs[i].nombre) = lower(nombre)
    THEN [err |-> ErrDuplicado, contactos |-> cs, guarda |-> FALSE]
  ELSE [err |-> SinError,
        contactos |-> <<Contacto(nombre, telefono, email)>> \o cs,
        guarda |-> TRUE]

\* a variant that builds and appends the contact before looking for a
\* duplicate
agregar_contacto_anexa_antes(cs, nombre, telefono, email) ==
  IF nombre = <<>> \/ telefono = <<>> \/ email = <<>>
    THEN [err |-> ErrObligatorios, contactos |-> cs, guarda |-> FALSE]
  ELSE IF ~validar_email(email)
    THEN [err |-> ErrEmail, contactos |-> cs, guarda |-> FALSE]
  ELSE IF \E i \in 1..Len(cs) : lower(cs[i].nombre) = lower(nombre)
    THEN [err |-> ErrDuplicado,
          contactos |-> Append(cs, Contacto(nombre, telefono, email)),
          guarda |-> FALSE]
  ELSE [err |-> SinError,
        contactos |-> Append(cs, Contacto(nombre, telefono, email)),
        guarda |-> TRUE]

\* agregar_contacto up to the call of _guardar_contactos: the error raised
\* (or none), the resulting list, and whether the file is rewritten
agregar_contacto(cs, nombre, telefono, email) ==
  IF nombre = <<>> \/ telefono = <<>> \/ email = <<>>
    THEN [err |-> ErrObligatorios, contactos |-> cs, guarda |-> FALSE]
  ELSE IF ~validar_email(email)
    THEN [err |-> ErrEmail, contactos |-> cs, guarda |-> FALSE]
  ELSE IF \E i \in 1..Len(cs) : lower(cs[i].nombre) = lower(nombre)
    THEN [err |-> ErrDuplicado, contactos |-> cs, guarda |-> FALSE]
  ELSE [err |-> SinError,
        contactos |-> Append(cs, Contacto(nombre, telefono, email)),
        guarda |-> TRUE]

\* a variant that keeps scanning and returns the last match
buscar_contacto_ultimo(cs, nombre) ==
  LET idx == {i \in 1..Len(cs) : lower(cs[i].nombre) = lower(nombre)}
  IN  IF idx = {} THEN [err |-> ErrNoEncontrado, valor |-> <<>>]
      ELSE [err |-> SinError, valor |-> <<cs[Max(idx)]>>]

\* buscar_contacto: first contact whose lowered name equals the lowered
\* argument, or LookupError
buscar_contacto(cs, nombre) ==
  LET idx == {i \in 1..Len(cs) : lower(cs[i].nombre) = lower(nombre)}
  IN  IF idx = {} THEN [err |-> ErrNoEncontrado, valor |-> <<>>]
      ELSE [err |-> SinError, valor |-> <<cs[Min(idx)]>>]

\* a variant that filters out every contact with a matching name
eliminar_contacto_todos(cs, nombre) ==
  LET noCoincide(c) == lower(c.nombre) # lower(nombre)
  IN  IF \A i \in 1..Len(cs) : noCoincide(cs[i])
      THEN [err |-> ErrNoEncontrado, contactos |-> cs, guarda |-> FALSE]
      ELSE [err |-> SinError, contactos |-> SelectSeq(cs, noCoincide), guarda |-> TRUE]

\* a variant that calls _guardar_contactos after the loop, match or not
eliminar_contacto_guarda_siempre(cs, nombre) ==
  LET idx == {i \in 1..Len(cs) : lower(cs[i].nombre) = lower(nombre)}
  IN  IF idx = {} THEN [err |-> ErrNoEncontrado, contactos |-> cs, guarda |-> TRUE]
      ELSE [err |-> SinError,
            contactos |-> SubSeq(cs, 1, Min(idx) - 1) \o SubSeq(cs, Min(idx) + 1, Len(cs)),
            guarda |-> TRUE]

\* eliminar_contacto up to the call of _guardar_contactos
eliminar_contacto(cs, nombre) ==
  LET idx == {i \in 1..Len(cs) : lower(cs[i].nombre) = lower(nombre)}
  IN  IF idx = {} THEN [err |-> ErrNoEncontrado, contactos |-> cs, guarda |-> FALSE]
      ELSE [err |-> SinError,
            contactos |-> SubSeq(cs, 1, Min(idx) - 1) \o SubSeq(cs, Min(idx) + 1, Len(cs)),
            guarda |-> TRUE]

ErrEscritura == "IOError"

\* a variant without the try/except around the write: IOError reaches the
\* caller
tras_guardar_propaga(r, w) ==
  [err |-> IF r.guarda /\ w # Len(r.contactos) THEN ErrEscritura ELSE r.err,
   contactos |-> r.contactos]

\* what the caller of agregar_contacto / eliminar_contacto gets once
\* _guardar_contactos has run with outcome w: IOError is caught and printed
\* there, so the error is the one of the checks and the list stays as changed
tras_guardar(r, w) == [err |-> r.err, contactos |-> r.contactos]

(* ------------------------------ inputs -------------------------------- *)

EmailOk == <<"a", "@", "b", ".", "c", "c">>

Nombres == { <<" ">>, <<"a">>, <<"A">>, <<" ", "a">> }
Telefonos == { <<>>, <<"1">>, <<"1", ";">> }
Emails == { <<" ">>, EmailOk, EmailOk \o <<NL>> }

(* ------------------------------ actions ------------------------------- *)

Llamada(op, nombre, telefono, email, err, valor) ==
  [op |-> op, nombre |-> nombre, telefono |-> telefono, email |-> email,
   err |-> err, valor |-> valor]

CodecInactivo ==
  /\ pc = "repo" /\ craw = Contacto(<<>>, <<>>, <<>>) /\ linea = <<>> /\ decod = <<>>

\* GestionContactos(archivo) on an absent or an empty file
Init ==
  /\ disco \in {Ausente, [existe |-> TRUE, texto |-> <<>>]}
  /\ contactos = cargar_contactos(disco).contactos
  /\ ultimo = Llamada("init", <<>>, <<>>, <<>>, SinError, <<>>)
  /\ previo = <<>>
  /\ discoPrevio = disco
  /\ escritura = "ninguna"
  /\ fallos = 0
  /\ avisos = cargar_contactos(disco).avisos
  /\ CodecInactivo

\* gestor.agregar_contacto(nombre, telefono, email), arguments from NS, TS, ES
AgregarDe(NS, TS, ES) ==
  \E nombre \in NS, telefono \in TS, email \in ES :
    \E r \in {agregar_contacto(contactos, nombre, telefono, email)} :
        /\ Len(r.contactos) <= MaxContactos
        /\ \E w \in (IF r.guarda THEN EscriturasPosibles(r.contactos, fallos) ELSE {-2}) :
           \E t \in {tras_guardar(r, w)} :
             /\ contactos' = t.contactos
             /\ disco' = IF r.guarda THEN guardar_contactos(r.contactos, disco, w) ELSE disco
             /\ escritura' = IF ~r.guarda THEN "ninguna"
                             ELSE IF w = Len(r.contactos) THEN "ok" ELSE "error"
             /\ fallos' = IF r.guarda /\ w # Len(r.contactos) THEN fallos + 1 ELSE fallos
             /\ ultimo' = Llamada("add", nombre, telefono, email, t.err, <<>>)
        /\ previo' = contactos
        /\ discoPrevio' = disco
        /\ UNCHANGED avisos
        /\ UNCHANGED codecVars

Agregar == AgregarDe(Nombres, Telefonos, Emails)

\* a variant that opens the file for appending while it searches
BuscarDe_abre_archivo(NS) ==
  \E nombre \in NS :
    \E r \in {buscar_contacto(contactos, nombre)} :
        /\ ultimo' = Llamada("find", nombre, <<>>, <<>>, r.err, r.valor)
        /\ previo' = contactos
        /\ discoPrevio' = disco
        /\ escritura' = "ninguna"
        /\ disco' = [existe |-> TRUE, texto |-> disco.texto]
        /\ UNCHANGED <<contactos, fallos, avisos>>
        /\ UNCHANGED codecVars

\* gestor.buscar_contacto(nombre), argument from NS
BuscarDe(NS) ==
  \E nombre \in NS :
    \E r \in {buscar_contacto(contactos, nombre)} :
        /\ ultimo' = Llamada("find", nombre, <<>>, <<>>, r.err, r.valor)
        /\ previo' = contactos
        /\ discoPrevio' = disco
        /\ escritura' = "ninguna"
        /\ UNCHANGED <<contactos, disco, fallos, avisos>>
        /\ UNCHANGED codecVars

Buscar == BuscarDe(Nombres)

\* gestor.eliminar_contacto(nombre), argument from NS
EliminarDe(NS) ==
  \E nombre \in NS :
    \E r \in {eliminar_contacto(contactos, nombre)} :
        /\ \E w \in (IF r.guarda THEN EscriturasPosibles(r.contactos, fallos) ELSE {-2}) :
           \E t \in {tras_guardar(r, w)} :
             /\ contactos' = t.contactos
             /\ disco' = IF r.guarda THEN guardar_contactos(r.contactos, disco, w) ELSE disco
             /\ escritura' = IF ~r.guarda THEN "ninguna"
                             ELSE IF w = Len(r.contactos) THEN "ok" ELSE "error"
             /\ fallos' = IF r.guarda /\ w # Len(r.contactos) THEN fallos + 1 ELSE fallos
             /\ ultimo' = Llamada("remove", nombre, <<>>, <<>>, t.err, <<>>)
        /\ previo' = contactos
        /\ discoPrevio' = disco
        /\ UNCHANGED avisos
        /\ UNCHANGED codecVars

Eliminar == EliminarDe(Nombres)

\* gestor.mostrar_todos(): prints the list, returns nothing
MostrarTodos ==
  /\ ultimo' = Llamada("list", <<>>, <<>>, <<>>, SinError, contactos)
  /\ previo' = contactos
  /\ discoPrevio' = disco
  /\ escritura' = "ninguna"
  /\ UNCHANGED <<contactos, disco, fallos, avisos>>
  /\ UNCHANGED codecVars

Next == Agregar \/ Buscar \/ Eliminar \/ MostrarTodos

Spec == Init /\ [][Next]_vars

(* ------------------- a repository on an existing file ----------------- *)

\* lines a file may hold, without their newline: one field, a valid record,
\* a record whose name repeats the valid one in another case and whose
\* e-mail is no address, a record of three empty fields, four fields, and
\* a blank line
LineasArchivo ==
  { <<"b">>,
    <<"a", ";", "1", ";">> \o EmailOk,
    <<"A", ";", "2", ";", "c">>,
    <<";", ";">>,
    <<"a", ";", "1", ";", ";">> \o EmailOk,
    <<>> }

\* the texts of n lines, each ended by a newline
RECURSIVE Textos(_)
Textos(n) ==
  IF n = 0 THEN {<<>>}
  ELSE {t \o l \o <<NL>> : t \in Textos(n - 1), l \in LineasArchivo}

\* files of at most MaxLineas lines; the last newline may be missing
Archivos ==
  LET completos == UNION {Textos(n) : n \in 0..MaxLineas}
  IN  completos \cup {SubSeq(t, 1, Len(t) - 1) : t \in completos \ {<<>>}}

NombresCarga == { <<>>, <<"a">>, <<"A">> }
TelefonosCarga == { <<"1">>, <<"1", ";">> }
EmailsCarga == { EmailOk }

\* GestionContactos(archivo) on a file that exists
InitCarga ==
  /\ disco \in {[existe |-> TRUE, texto |-> t] : t \in Archivos}
  /\ contactos = cargar_contactos(disco).contactos
  /\ ultimo = Llamada("init", <<>>, <<>>, <<>>, SinError, <<>>)
  /\ previo = <<>>
  /\ discoPrevio = disco
  /\ escritura = "ninguna"
  /\ fallos = 0
  /\ avisos = cargar_contactos(disco).avisos
  /\ CodecInactivo

AgregarCarga == AgregarDe(NombresCarga, TelefonosCarga, EmailsCarga)
BuscarCarga == BuscarDe(NombresCarga)
EliminarCarga == EliminarDe(NombresCarga)

NextCarga == AgregarCarga \/ BuscarCarga \/ EliminarCarga \/ MostrarTodos

SpecCarga == InitCarga /\ [][NextCarga]_vars

(* ------------------------- the codec on its own ----------------------- *)

Alfabeto == {"a", " ", ";", NL}

\* all strings over Alfabeto of length at most n
Cadenas(n) == UNION {[1..k -> Alfabeto] : k \in 0..n}

RepoInactivo ==
  /\ contactos = <<>> /\ disco = Ausente
  /\ ultimo = Llamada("init", <<>>, <<>>, <<>>, SinError, <<>>)
  /\ previo = <<>> /\ discoPrevio = Ausente
  /\ escritura = "ninguna" /\ fallos = 0 /\ avisos = <<>>

\* c = Contacto(nombre, telefono, email) for any three strings
InitCodec ==
  /\ RepoInactivo
  /\ pc = "nuevo"
  /\ craw \in {Contacto(n, t, e) : n \in Cadenas(MaxCampo), t \in Cadenas(MaxCampo),
                                   e \in Cadenas(MaxCampo)}
  /\ linea = <<>>
  /\ decod = <<>>

\* linea = c.to_line()
Codificar ==
  /\ pc = "nuevo"
  /\ linea' = to_line(craw)
  /\ pc' = "linea"
  /\ UNCHANGED <<craw, decod>>
  /\ UNCHANGED repoVars

\* Contacto.from_line(linea)
Decodificar ==
  /\ pc = "linea"
  /\ decod' = from_line(linea)
  /\ pc' = "hecho"
  /\ UNCHANGED <<craw, linea>>
  /\ UNCHANGED repoVars

NextCodec == Codificar \/ Decodificar

SpecCodec == InitCodec /\ [][NextCodec]_vars

(* ------------------------------ properties ---------------------------- *)

\* s is empty or holds whitespace only
EnBlanco(s) == \A i \in 1..Len(s) : s[i] \in Espacios

\* s holds the field separator or a line break
Rompe(s) == \E i \in 1..Len(s) : s[i] \in {";", NL}

\* n names contact c when compared without regard to letter case
Coincide(c, n) == lower(c.nombre) = lower(n)

ErroresDeValidacion == {ErrObligatorios, ErrEmail, ErrDuplicado}

\* C1: no two contacts of the in-memory list have names that are equal when
\* compared case-insensitively.
C1_NombresUnicos ==
  \A i, j \in 1..Len(contactos) :
    i # j => lower(contactos[i].nombre) # lower(contactos[j].nombre)

\* C2: an add in which one of the three arguments is empty or whitespace only
\* fails with a validation error and appends nothing.
C2_CampoEnBlancoRechazado ==
  (/\ ultimo.op = "add"
   /\ (EnBlanco(ultimo.nombre) \/ EnBlanco(ultimo.telefono) \/ EnBlanco(ultimo.email)))
  => (ultimo.err \in ErroresDeValidacion /\ contactos = previo)

\* C3: after an add that succeeds with non-blank fields and a well-formed
\* e-mail, an immediately following find of the name as passed to add, or of
\* a letter-case variant of it, succeeds and returns the contact holding the
\* trimmed add arguments.
C3_AgregarLuegoBuscar ==
  [][(/\ ultimo.op = "add" /\ ultimo.err = SinError
      /\ ~EnBlanco(ultimo.nombre) /\ ~EnBlanco(ultimo.telefono)
      /\ ~EnBlanco(ultimo.email) /\ validar_email(ultimo.email)
      /\ ultimo'.op = "find"
      /\ lower(ultimo'.nombre) = lower(ultimo.nombre))
     => (/\ ultimo'.err = SinError
         /\ ultimo'.valor = <<[nombre |-> strip(ultimo.nombre),
                               telefono |-> strip(ultimo.telefono),
                               email |-> strip(ultimo.email)]>>)]_vars

\* C4: when the list holds a contact named N, an add of M, which differs from
\* N only in letter case, with a valid phone and e-mail fails with the
\* duplicate error and the list keeps exactly one contact with that name.
C4_DuplicadoPorCaja ==
  (/\ ultimo.op = "add"
   /\ ~EnBlanco(ultimo.telefono) /\ validar_email(ultimo.email)
   /\ \E i \in 1..Len(previo) :
        previo[i].nombre # ultimo.nombre /\ Coincide(previo[i], ultimo.nombre))
  => (/\ ultimo.err = ErrDuplicado
      /\ Cardinality({i \in 1..Len(contactos) : Coincide(contactos[i], ultimo.nombre)}) = 1)

\* C5: a remove of a name that matches no contact case-insensitively fails
\* with LookupError and leaves the list and the file as they were, the file
\* not being rewritten.
C5_EliminarAusente ==
  (/\ ultimo.op = "remove"
   /\ \A i \in 1..Len(previo) : ~Coincide(previo[i], ultimo.nombre))
  => (/\ ultimo.err = ErrNoEncontrado
      /\ contactos = previo
      /\ disco = discoPrevio
      /\ escritura = "ninguna")

\* a remove failed on a non-empty list whose file is out of date
C5_Testigo ==
  /\ ultimo.op = "remove" /\ ultimo.err = ErrNoEncontrado
  /\ Len(previo) >= 1
  /\ disco.texto # texto_de(contactos, Len(contactos))

\* C6 as stated: after every add that succeeds and whose write succeeds, a
\* fresh repository on the same file loads a list equal to the in-memory
\* list, for every argument triple add accepts.
C6_RecargaIgual ==
  (ultimo.op = "add" /\ ultimo.err = SinError /\ escritura = "ok")
  => cargar_contactos(disco).contactos = contactos

\* C6 amended: the same, provided no field of a contact of the in-memory list
\* holds ';' or a line break.
C6_RecargaIgualSinSeparador ==
  (/\ ultimo.op = "add" /\ ultimo.err = SinError /\ escritura = "ok"
   /\ \A i \in 1..Len(contactos) :
        ~Rompe(contactos[i].nombre) /\ ~Rompe(contactos[i].telefono)
        /\ ~Rompe(contactos[i].email))
  => cargar_contactos(disco).contactos = contactos

\* a second contact was added and written, no field holding ';' or a newline
C6_Testigo ==
  /\ ultimo.op = "add" /\ ultimo.err = SinError /\ escritura = "ok"
  /\ Len(contactos) = 2
  /\ \A i \in 1..Len(contactos) :
       ~Rompe(contactos[i].nombre) /\ ~Rompe(contactos[i].telefono)
       /\ ~Rompe(contactos[i].email)
  /\ cargar_contactos(disco).contactos = contactos

\* C7: for a Contacto whose fields hold neither ';' nor a newline, also one
\* with an empty field, from_line(to_line(c)) succeeds and gives a contact
\* with the same name, phone and e-mail.
C7_IdaYVuelta ==
  (/\ pc = "hecho"
   /\ ~Rompe(craw.nombre) /\ ~Rompe(craw.telefono) /\ ~Rompe(craw.email))
  => decod = <<craw>>

\* a contact with an empty phone and a non-empty name went through the codec
C7_Testigo ==
  /\ pc = "hecho"
  /\ ~Rompe(craw.nombre) /\ ~Rompe(craw.telefono) /\ ~Rompe(craw.email)
  /\ craw.nombre # <<>> /\ craw.telefono = <<>>
  /\ decod = <<craw>>

\* C8: every contact of the in-memory list has a non-empty name, a non-empty
\* phone, an e-mail matching the address pattern, and no field with leading
\* or trailing whitespace.
C8_ModeloDeDatos ==
  \A i \in 1..Len(contactos) :
    LET c == contactos[i]
    IN  /\ c.nombre # <<>> /\ c.telefono # <<>>
        /\ validar_email(c.email)
        /\ strip(c.nombre) = c.nombre /\ strip(c.telefono) = c.telefono
        /\ strip(c.email) = c.email

\* C9: after an add that succeeds, a following remove of the name as passed
\* to add, or of a letter-case variant of it, succeeds and leaves the list
\* equal to the list before the add.
C9_AgregarLuegoEliminar ==
  [][(/\ ultimo.op = "add" /\ ultimo.err = SinError
      /\ ultimo'.op = "remove"
      /\ lower(ultimo'.nombre) = lower(ultimo.nombre))
     => (ultimo'.err = SinError /\ contactos' = previo)]_vars

\* C10: an add that fails with a validation error leaves the list and the
\* file as they were; nothing is appended, the file is not rewritten.
C10_AgregarFallidoSinEfecto ==
  (ultimo.op = "add" /\ ultimo.err \in ErroresDeValidacion)
  => (contactos = previo /\ disco = discoPrevio /\ escritura = "ninguna")

\* an add was refused as a duplicate while the file was out of date
C10_Testigo ==
  /\ ultimo.op = "add" /\ ultimo.err = ErrDuplicado
  /\ Len(contactos) >= 1
  /\ disco.texto # texto_de(contactos, Len(contactos))

\* the e-mail, taken as a whole, has the form of the address pattern: one or
\* more word, dot or hyphen characters, '@', one or more of the same, '.',
\* two or more word characters
FormaDeDireccion(email) ==
  \E i \in 1..Len(email), j \in 1..Len(email) :
    /\ 1 < i /\ i + 1 < j /\ j + 2 <= Len(email)
    /\ email[i] = "@" /\ email[j] = "."
    /\ \A k \in 1..(i - 1) : EsLocal(email[k])
    /\ \A k \in (i + 1)..(j - 1) : EsLocal(email[k])
    /\ \A k \in (j + 1)..Len(email) : EsPalabra(email[k])

\* cs without its i-th element
SinIndice(cs, i) == SubSeq(cs, 1, i - 1) \o SubSeq(cs, i + 1, Len(cs))

\* "<name>;<phone>;<email>\n" for each contact, in order
RECURSIVE Concatenado(_)
Concatenado(cs) ==
  IF cs = <<>> THEN <<>>
  ELSE Head(cs).nombre \o <<";">> \o Head(cs).telefono \o <<";">> \o Head(cs).email
       \o <<NL>> \o Concatenado(Tail(cs))

\* the contact an add of the last call's arguments stores
Recortado(u) ==
  [nombre |-> strip(u.nombre), telefono |-> strip(u.telefono), email |-> strip(u.email)]

\* C11: an add with non-empty fields whose e-mail, as a whole, is not of the
\* address form (leading or trailing whitespace and a trailing newline
\* included) fails with a validation error and appends nothing.
C11_EmailMalFormadoRechazado ==
  (/\ ultimo.op = "add"
   /\ ultimo.nombre # <<>> /\ ultimo.telefono # <<>> /\ ultimo.email # <<>>
   /\ ~FormaDeDireccion(ultimo.email))
  => (ultimo.err \in ErroresDeValidacion /\ contactos = previo)

\* C13: right after an add or remove that succeeds and whose write succeeds,
\* the file holds exactly "<name>;<phone>;<email>\n" for each contact of the
\* list, in order, whatever it held before.
C13_ArchivoIgualALista ==
  (ultimo.op \in {"add", "remove"} /\ ultimo.err = SinError /\ escritura = "ok")
  => (disco.existe /\ disco.texto = Concatenado(contactos))

\* a write succeeded after an earlier one had failed, on a file that had
\* skipped lines and was out of step with the list
C13_Testigo ==
  /\ ultimo.op \in {"add", "remove"} /\ ultimo.err = SinError /\ escritura = "ok"
  /\ fallos >= 1 /\ avisos # <<>> /\ Len(contactos) >= 1
  /\ discoPrevio.texto # Concatenado(previo)
  /\ disco.texto = Concatenado(contactos)

\* C14: when the write fails during an add or remove that passed its checks,
\* the call still returns normally, the list keeps the change, and a
\* following find or add works on the changed list.
C14_FalloDeEscritura ==
  [][/\ (escritura' = "error" /\ ultimo'.op = "add")
          => (ultimo'.err = SinError /\ contactos' = Append(contactos, Recortado(ultimo')))
     /\ (escritura' = "error" /\ ultimo'.op = "remove")
          => (/\ ultimo'.err = SinError
              /\ \E i \in 1..Len(contactos) :
                   Coincide(contactos[i], ultimo'.nombre) /\ contactos' = SinIndice(contactos, i))
     /\ (/\ escritura = "error" /\ ultimo.op = "add" /\ ultimo'.op = "find"
         /\ lower(ultimo'.nombre) = lower(strip(ultimo.nombre)))
          => ultimo'.err = SinError
     /\ (/\ escritura = "error" /\ ultimo.op = "add" /\ ultimo'.op = "add"
         /\ lower(ultimo'.nombre) = lower(strip(ultimo.nombre))
         /\ ultimo'.nombre # <<>> /\ ultimo'.telefono # <<>>
         /\ validar_email(ultimo'.email))
          => ultimo'.err = ErrDuplicado
     /\ (escritura = "error" /\ ultimo.op = "remove" /\ ultimo'.op = "list")
          => (ultimo'.valor = contactos /\ Len(contactos) = Len(previo) - 1)
    ]_vars

\* an add returned normally although its write failed; the contact is in the
\* list and not in the file
C14_Testigo ==
  /\ escritura = "error" /\ ultimo.op = "add" /\ ultimo.err = SinError
  /\ contactos = Append(previo, Recortado(ultimo))
  /\ cargar_contactos(disco).contactos # contactos

\* C15: find returns the contact at the lowest index whose name equals the
\* argument case-insensitively, also when several contacts match, and fails
\* with LookupError exactly when none matches.
C15_BuscarPrimero ==
  (ultimo.op = "find")
  => IF \E i \in 1..Len(contactos) : Coincide(contactos[i], ultimo.nombre)
     THEN /\ ultimo.err = SinError
          /\ \E i \in 1..Len(contactos) :
               /\ Coincide(contactos[i], ultimo.nombre)
               /\ \A j \in 1..(i - 1) : ~Coincide(contactos[j], ultimo.nombre)
               /\ ultimo.valor = <<contactos[i]>>
     ELSE ultimo.err = ErrNoEncontrado /\ ultimo.valor = <<>>

\* a find returned the first of two different contacts with matching names
C15_Testigo ==
  /\ ultimo.op = "find" /\ ultimo.err = SinError
  /\ Len(contactos) >= 2
  /\ Coincide(contactos[1], ultimo.nombre) /\ Coincide(contactos[2], ultimo.nombre)
  /\ contactos[1] # contactos[2]
  /\ ultimo.valor = <<contactos[1]>>

\* C16: a remove that succeeds deletes exactly the contact at the lowest
\* index whose name matches; every other contact, later matches included,
\* stays in its order and the list is one shorter.
C16_EliminarPrimero ==
  (ultimo.op = "remove" /\ ultimo.err = SinError)
  => (/\ Len(contactos) = Len(previo) - 1
      /\ \E i \in 1..Len(previo) :
           /\ Coincide(previo[i], ultimo.nombre)
           /\ \A j \in 1..(i - 1) : ~Coincide(previo[j], ultimo.nombre)
           /\ contactos = SinIndice(previo, i))

\* a remove took the first of two different matching contacts and left the
\* second
C16_Testigo ==
  /\ ultimo.op = "remove" /\ ultimo.err = SinError
  /\ Len(previo) = 2
  /\ Coincide(previo[1], ultimo.nombre) /\ Coincide(previo[2], ultimo.nombre)
  /\ previo[1] # previo[2]
  /\ contactos = <<previo[2]>>

\* C17: an add that succeeds changes the list only by appending one contact:
\* the former list is a prefix of the new one and the last element holds the
\* trimmed name, phone and e-mail.
C17_AgregarAlFinal ==
  (ultimo.op = "add" /\ ultimo.err = SinError)
  => (/\ Len(contactos) = Len(previo) + 1
      /\ SubSeq(contactos, 1, Len(previo)) = previo
      /\ contactos[Len(contactos)] = Recortado(ultimo))

\* an add with a name that needed trimming was appended to a non-empty list
C17_Testigo ==
  /\ ultimo.op = "add" /\ ultimo.err = SinError
  /\ Len(previo) >= 1
  /\ strip(ultimo.nombre) # ultimo.nombre
  /\ contactos[Len(contactos)] = Recortado(ultimo)
  /\ contactos[1] # contactos[Len(contactos)]

\* C19: a find, found or not, and a list leave the in-memory list and the
\* file as they were and neither write nor create the file.
C19_SoloLectura ==
  (ultimo.op \in {"find", "list"})
  => (/\ contactos = previo
      /\ disco = discoPrevio
      /\ escritura = "ninguna")

\* a find ran on a non-empty list while the file did not exist
C19_Testigo ==
  /\ ultimo.op = "find"
  /\ Len(contactos) >= 1
  /\ ~disco.existe

\* positions at which a line of the text ends: each newline, and the last
\* character when the text does not end in a newline
Fines(t) ==
  {i \in 1..Len(t) : t[i] = NL} \cup (IF t # <<>> /\ t[Len(t)] # NL THEN {Len(t)} ELSE {})

\* the line of t that ends at position f
LineaEn(t, f) == SubSeq(t, 1 + Max({0} \cup {g \in Fines(t) : g < f}), f)

\* the line has exactly three ';'-separated fields
TresCampos(l) == Cardinality({i \in 1..Len(l) : l[i] = ";"}) = 2

\* the contact a three-field line stands for: the text before, between and
\* after its two separators, trimmed
Decodificada(l) ==
  LET t == strip(l)
      p == Min({i \in 1..Len(t) : t[i] = ";"})
      q == Max({i \in 1..Len(t) : t[i] = ";"})
  IN  [nombre |-> strip(SubSeq(t, 1, p - 1)),
       telefono |-> strip(SubSeq(t, p + 1, q - 1)),
       email |-> strip(SubSeq(t, q + 1, Len(t)))]

\* the three-field lines of the text, decoded, in file order
Esperados(t) ==
  LET F3 == {f \in Fines(t) : TresCampos(LineaEn(t, f))}
      kth(k) == CHOOSE f \in F3 : Cardinality({g \in F3 : g <= f}) = k
  IN  [k \in 1..Cardinality(F3) |-> Decodificada(LineaEn(t, kth(k)))]

\* number of lines of the text that do not have three fields
OtrasLineas(t) == Cardinality({f \in Fines(t) : ~TresCampos(LineaEn(t, f))})

\* the lines of the text, trimmed
LineasRecortadas(t) == {strip(LineaEn(t, f)) : f \in Fines(t)}

\* no field of a contact of the list holds ';' or a line break
CamposLimpios(cs) ==
  \A i \in 1..Len(cs) :
    ~Rompe(cs[i].nombre) /\ ~Rompe(cs[i].telefono) /\ ~Rompe(cs[i].email)

\* C12: a repository constructed on a file that mixes three-field lines and
\* other lines holds exactly the decoded three-field lines in file order,
\* has emitted one warning per other line, and raised no error.
C12_CargaOmiteMalFormadas ==
  (ultimo.op = "init" /\ disco.existe)
  => (/\ ultimo.err = SinError
      /\ contactos = Esperados(disco.texto)
      /\ Len(avisos) = OtrasLineas(disco.texto))

\* a file whose first line is the single field b and whose second line is a
\* record: one contact, one warning
C12_Testigo ==
  /\ ultimo.op = "init" /\ disco.existe
  /\ disco.texto # <<>> /\ disco.texto[1] = "b"
  /\ Len(contactos) = 1 /\ avisos = << <<"b">> >>

\* C18: load checks nothing but the three-field shape: right after
\* construction the list holds every three-field line, also with an e-mail
\* that is no address, an empty field or a name that repeats an earlier one,
\* and a list or a find returns these contacts like any other.
C18_CargaSinValidar ==
  [][(ultimo.op = "init" /\ disco.existe)
     => LET E == Esperados(disco.texto)
        IN  /\ contactos = E
            /\ (ultimo'.op = "list" => ultimo'.valor = E)
            /\ (ultimo'.op = "find" =>
                  \A k \in 1..Len(E) :
                    (/\ Coincide(E[k], ultimo'.nombre)
                     /\ \A j \in 1..(k - 1) : ~Coincide(E[j], ultimo'.nombre))
                    => (ultimo'.err = SinError /\ ultimo'.valor = <<E[k]>>))]_vars

\* a find on the list as loaded returned a contact whose e-mail is no address
C18_Testigo ==
  /\ ultimo.op = "find" /\ ultimo.err = SinError
  /\ ultimo.valor # <<>> /\ ~validar_email(ultimo.valor[1].email)
  /\ disco.existe /\ contactos = Esperados(disco.texto) /\ fallos = 0
  /\ avisos # <<>>

\* C20 as stated: after an add or remove that succeeds with a successful
\* write, the file holds the encodings of the in-memory contacts and none of
\* the lines load skipped.
C20_OmitidasPerdidas ==
  (ultimo.op \in {"add", "remove"} /\ ultimo.err = SinError /\ escritura = "ok")
  => (/\ disco.texto = Concatenado(contactos)
      /\ \A k \in 1..Len(avisos) : avisos[k] \notin LineasRecortadas(disco.texto))

\* C20 amended: the file then holds the encodings of the in-memory contacts,
\* and none of the skipped lines provided no field of an in-memory contact
\* holds ';' or a line break.
C20_OmitidasPerdidasCamposLimpios ==
  (ultimo.op \in {"add", "remove"} /\ ultimo.err = SinError /\ escritura = "ok")
  => (/\ disco.texto = Concatenado(contactos)
      /\ CamposLimpios(contactos)
           => \A k \in 1..Len(avisos) : avisos[k] \notin LineasRecortadas(disco.texto))

\* a successful write replaced a file that still held a skipped line
C20_Testigo ==
  /\ ultimo.op \in {"add", "remove"} /\ ultimo.err = SinError /\ escritura = "ok"
  /\ avisos # <<>> /\ Len(contactos) >= 1 /\ CamposLimpios(contactos)
  /\ avisos[1] \in LineasRecortadas(discoPrevio.texto)
  /\ avisos[1] \notin LineasRecortadas(disco.texto)

====
